---- MODULE Spec2Model ----
(***************************************************************************)
(* State-machine model of the `cover` program (Maximum k-Coverage):        *)
(*   cover generate <output> <elements> <sets> [--max-size <size>]         *)
(*   cover solve <input> <k>                                               *)
(* do_generate is modelled one attempt of its rejection loop at a time;    *)
(* do_solve builds the ILP handed to the solver, the solver answers with   *)
(* any optimal assignment of that ILP, and the Solution is extracted.      *)
(***************************************************************************)
EXTENDS Integers, Sequences, FiniteSets, TLC

\* ---------------------------------------------------------------- bounds
\* num_elements ranges over 0..MaxElements (usize)
MaxElements == 3
\* num_sets ranges over 0..MaxNumSets (usize)
MaxNumSets == 3
\* --max-size, when given, ranges over 0..MaxMaxSize (usize)
MaxMaxSize == 4
\* element ids of a loaded instance file range over 0..MaxLoadedElem-1
MaxLoadedElem == 2
\* a loaded instance file holds at most MaxLoadedSets subsets
MaxLoadedSets == 2
\* k ranges over 0..MaxK (usize)
MaxK == 2

VARIABLES
    pc,        \* position of the program
    num_sets,  \* do_generate: argument
    max_size,  \* do_generate: argument, an Option<usize>
    ground,    \* do_generate: local `ground`
    range,     \* do_generate: local `range` (rand::distributions::Range)
    sets,      \* do_generate: local accumulator `sets`, a BTreeSet of BTreeSets
    iter,      \* do_generate: completed iterations of `for _ in 0..num_sets`
    size,      \* do_generate: `size` of the latest attempt
    set,       \* do_generate: `set` of the latest attempt
    inst,      \* the Instance returned by do_generate / loaded by read
    k,         \* do_solve: argument
    prob,      \* do_solve: the rplex Problem (variables, constraints)
    sol,       \* do_solve: the solver's answer (variables, objective)
    out_sol    \* do_solve: the Solution

vars == <<pc, num_sets, max_size, ground, range, sets, iter, size, set,
          inst, k, prob, sol, out_sol>>

genVars == <<num_sets, max_size, ground, range, sets, iter, size, set>>
solveVars == <<k, prob, sol, out_sol>>

\* ---------------------------------------------------------------- helpers
\* Option<usize>
None == [some |-> FALSE, val |-> 0]
Some(v) == [some |-> TRUE, val |-> v]
unwrap_or(opt, default) == IF opt.some THEN opt.val ELSE default

Min2(a, b) == IF a <= b THEN a ELSE b

\* iteration order of a BTreeSet<usize>: ascending
RECURSIVE SortedElems(_)
SortedElems(S) ==
    IF S = {} THEN <<>>
    ELSE LET m == CHOOSE x \in S : \A y \in S : x <= y
         IN  <<m>> \o SortedElems(S \ {m})

\* Ord of sequences: lexicographic, a proper prefix is smaller
RECURSIVE SeqLess(_, _)
SeqLess(a, b) ==
    IF b = <<>> THEN FALSE
    ELSE IF a = <<>> THEN TRUE
    ELSE IF Head(a) # Head(b) THEN Head(a) < Head(b)
    ELSE SeqLess(Tail(a), Tail(b))

\* Ord of BTreeSet<usize>: the lexicographic order of the ascending iterators
SetLess(A, B) == SeqLess(SortedElems(A), SortedElems(B))

\* sets.into_iter().collect(): the accumulator in BTreeSet order
RECURSIVE IntoVec(_)
IntoVec(F) ==
    IF F = {} THEN <<>>
    ELSE LET m == CHOOSE x \in F : \A y \in F \ {x} : SetLess(x, y)
         IN  <<m>> \o IntoVec(F \ {m})

\* Range::new(low, high) panics unless low < high
RangePanics(low, high) == low >= high
\* the values ind_sample can return: the half-open interval [low, high)
RangeValues(r) == r.low .. (r.high - 1)

\* rand::sample(rng, iterable, amount): `amount` distinct items of the
\* iterable, or all of them when it holds fewer than `amount`
Sample(g, amount) ==
    {S \in SUBSET g : Cardinality(S) = Min2(amount, Cardinality(g))}

\* mutant of Fresh: the duplicate test left out
FreshAlways(acc, s) == TRUE

\* the duplicate test of the rejection loop
Fresh(acc, s) == s \notin acc

\* ---------------------------------------------------------------- Init
NoInstance == [ground |-> {}, sets |-> <<>>]
NoProblem == [variables |-> <<>>, constraints |-> <<>>, element_vars |-> <<>>,
              set_vars |-> <<>>]
NoSol == [variables |-> <<>>, objective |-> 0]
NoSolution == [objective |-> 0, sol |-> <<>>]

Init ==
    /\ pc = "main"
    /\ num_sets = 0
    /\ max_size = None
    /\ ground = {}
    /\ range = [low |-> 0, high |-> 0]
    /\ sets = {}
    /\ iter = 0
    /\ size = 0
    /\ set = {}
    /\ inst = NoInstance
    /\ k = 0
    /\ prob = NoProblem
    /\ sol = NoSol
    /\ out_sol = NoSolution

\* ---------------------------------------------------------------- generate
\* main -> do_generate, up to the first iteration of the loop
do_generate_enter(n, ns, ms) ==
    /\ pc = "main"
    /\ num_sets' = ns
    /\ max_size' = ms
    /\ ground' = 0 .. (n - 1)
    /\ IF RangePanics(1, unwrap_or(ms, n + 1))
       THEN /\ pc' = "panic"
            /\ UNCHANGED range
       ELSE /\ range' = [low |-> 1, high |-> unwrap_or(ms, n + 1)]
            /\ pc' = IF ns = 0 THEN "return" ELSE "loop"
    /\ UNCHANGED <<sets, iter, size, set, inst>>
    /\ UNCHANGED solveVars

\* one pass of the inner `loop`: draw a size, sample a set, test, insert
do_generate_attempt(sz, s) ==
    /\ pc = "loop"
    /\ sz \in RangeValues(range)
    /\ s \in Sample(ground, sz)
    /\ size' = sz
    /\ set' = s
    /\ IF Fresh(sets, s)
       THEN /\ sets' = sets \cup {s}
            /\ iter' = iter + 1
            /\ pc' = IF iter + 1 = num_sets THEN "return" ELSE "loop"
       ELSE UNCHANGED <<sets, iter, pc>>
    /\ UNCHANGED <<num_sets, max_size, ground, range, inst>>
    /\ UNCHANGED solveVars

\* the Instance expression that ends do_generate
do_generate_return ==
    /\ pc = "return"
    /\ inst' = [ground |-> ground, sets |-> IntoVec(sets)]
    /\ pc' = "generated"
    /\ UNCHANGED genVars
    /\ UNCHANGED solveVars

\* ---------------------------------------------------------------- solve
\* var!(name -> obj as Binary)
Variable(name, obj) == [name |-> name, obj |-> obj, ty |-> "Binary"]

\* Problem::new
NewProblem == [variables |-> <<>>, constraints |-> <<>>]

\* prob.add_variable(v): appends a column and returns its index
AddVariable(p, v) == [p EXCEPT !.variables = Append(@, v)]
ColumnIndex(p) == Len(p.variables)

\* prob.add_constraint(c): appends a row
AddConstraint(p, c) == [p EXCEPT !.constraints = Append(@, c)]

\* iter.map(|..| prob.add_variable(..).unwrap()).collect::<Vec<_>>():
\* st.prob after the additions, st.idx the indices add_variable returned
RECURSIVE AddVariables(_, _)
AddVariables(st, vs) ==
    IF vs = <<>> THEN st
    ELSE AddVariables([prob |-> AddVariable(st.prob, Head(vs)),
                       idx  |-> Append(st.idx, ColumnIndex(st.prob))],
                      Tail(vs))

\* objective coefficient of an element variable ("e{}" -> 1.0)
ElementObj == 1
\* objective coefficient of a set variable ("s{}" -> 0.0)
SetObj == 0

\* the variables of inst.ground.iter().map(..)
ElementVariables(g) ==
    LET gs == SortedElems(g)
    IN  [j \in 1 .. Len(gs) |-> Variable(<<"e", gs[j]>>, ElementObj)]

\* the variables of inst.sets.iter().enumerate().map(..)
SetVariables(ss) == [j \in 1 .. Len(ss) |-> Variable(<<"s", j - 1>>, SetObj)]

\* containment after the set_vars pass: element -> the indices i (from 0) of
\* the sets that hold it, in the order pushed (ascending)
Containment(ss) ==
    [e \in UNION {ss[j] : j \in DOMAIN ss} |->
        SortedElems({j - 1 : j \in {j2 \in DOMAIN ss : e \in ss[j2]}})]

\* containment.entry(element).or_insert_with(Vec::new)
Entry(cont, e) == IF e \in DOMAIN cont THEN cont[e] ELSE <<>>

\* WeightedVariable::new_idx(var, weight)
WeightedVariable(var, weight) == [var |-> var, weight |-> weight]

\* mutant of CoverConstraint: the element variable added with weight +1.0
CoverConstraintPlus(var, element, cont, set_vars) ==
    LET is == IF element \in DOMAIN cont THEN cont[element] ELSE <<>>
    IN  [name |-> <<"cover", element>>,
         vars |-> [j \in 1 .. Len(is) |-> [var |-> set_vars[is[j] + 1], weight |-> 1]]
                  \o <<[var |-> var, weight |-> 1]>>,
         op   |-> ">=",
         rhs  |-> 0]

\* mutant of CoverConstraint: the inequality turned round (0.0 >= sum ..)
CoverConstraintFlipped(var, element, cont, set_vars) ==
    LET is == IF element \in DOMAIN cont THEN cont[element] ELSE <<>>
    IN  [name |-> <<"cover", element>>,
         vars |-> [j \in 1 .. Len(is) |-> [var |-> set_vars[is[j] + 1], weight |-> 1]]
                  \o <<[var |-> var, weight |-> -1]>>,
         op   |-> "<=",
         rhs  |-> 0]

\* con!(name: 0.0 <= sum ..set_vars[i]..) followed by add_wvar(var, -1.0)
CoverConstraint(var, element, cont, set_vars) ==
    LET is == Entry(cont, element)
    IN  [name |-> <<"cover", element>>,
         vars |-> [j \in 1 .. Len(is) |-> WeightedVariable(set_vars[is[j] + 1], 1)]
                  \o <<WeightedVariable(var, -1)>>,
         op   |-> ">=",
         rhs  |-> 0]

\* mutant of CardinalityConstraint: the bound off by one (k + 1)
CardinalityConstraintOffByOne(kk, set_vars) ==
    [name |-> <<"cardinality">>,
     vars |-> [j \in 1 .. Len(set_vars) |-> [var |-> set_vars[j], weight |-> 1]],
     op   |-> "<=",
     rhs  |-> kk + 1]

\* mutant of CardinalityConstraint: the inequality turned round (k <= sum ..)
CardinalityConstraintFlipped(kk, set_vars) ==
    [name |-> <<"cardinality">>,
     vars |-> [j \in 1 .. Len(set_vars) |-> [var |-> set_vars[j], weight |-> 1]],
     op   |-> ">=",
     rhs  |-> kk]

\* con!("cardinality": (k as f64) >= sum set_vars.iter())
CardinalityConstraint(kk, set_vars) ==
    [name |-> <<"cardinality">>,
     vars |-> [j \in 1 .. Len(set_vars) |-> WeightedVariable(set_vars[j], 1)],
     op   |-> "<=",
     rhs  |-> kk]

\* the loop over element_vars.iter().zip(inst.ground.iter())
RECURSIVE AddCoverConstraints(_, _, _, _, _)
AddCoverConstraints(p, j, gs, element_vars, cs) ==
    IF j > Min2(Len(gs), Len(element_vars)) THEN p
    ELSE AddCoverConstraints(
             AddConstraint(p, CoverConstraint(element_vars[j], gs[j],
                                              cs.cont, cs.set_vars)),
             j + 1, gs, element_vars, cs)

\* do_solve up to prob.solve(): the Problem, element_vars and set_vars
BuildProblem(in, kk) ==
    LET ev   == AddVariables([prob |-> NewProblem, idx |-> <<>>],
                             ElementVariables(in.ground))
        sv   == AddVariables([prob |-> ev.prob, idx |-> <<>>],
                             SetVariables(in.sets))
        cont == Containment(in.sets)
        p1   == AddCoverConstraints(sv.prob, 1, SortedElems(in.ground), ev.idx,
                                    [cont |-> cont, set_vars |-> sv.idx])
        p2   == AddConstraint(p1, CardinalityConstraint(kk, sv.idx))
    IN  [variables |-> p2.variables, constraints |-> p2.constraints,
         element_vars |-> ev.idx, set_vars |-> sv.idx]

\* ------- the solver (CPLEX behind rplex): exact optimum of the Problem
Columns(p) == 0 .. (Len(p.variables) - 1)
Assignments(p) == [Columns(p) -> {0, 1}]

RECURSIVE Lhs(_, _)
Lhs(ws, a) ==
    IF ws = <<>> THEN 0
    ELSE Head(ws).weight * a[Head(ws).var] + Lhs(Tail(ws), a)

Satisfies(a, c) ==
    IF c.op = ">=" THEN Lhs(c.vars, a) >= c.rhs ELSE Lhs(c.vars, a) <= c.rhs

Feasible(p) ==
    {a \in Assignments(p) :
        \A j \in DOMAIN p.constraints : Satisfies(a, p.constraints[j])}

RECURSIVE ObjectiveFrom(_, _, _)
ObjectiveFrom(p, a, j) ==
    IF j > Len(p.variables) THEN 0
    ELSE p.variables[j].obj * a[j - 1] + ObjectiveFrom(p, a, j + 1)
Objective(p, a) == ObjectiveFrom(p, a, 1)

\* ObjectiveType::Maximize
Optimal(p) ==
    LET F == Feasible(p)
        values == {Objective(p, a) : a \in F}
        best == CHOOSE m \in values : \A v \in values : v <= m
    IN  IF F = {} THEN {} ELSE {a \in F : Objective(p, a) = best}

\* set_vars.into_iter().filter(|&var| sol.variables[var] == Binary(true))
SolSets(set_vars, variables) ==
    SelectSeq(set_vars, LAMBDA var : variables[var] = 1)

\* main -> read(input): any JSON-decodable Instance, and k
main_solve(g, ss, kk) ==
    /\ pc = "main"
    /\ inst' = [ground |-> g, sets |-> ss]
    /\ k' = kk
    /\ pc' = "loaded"
    /\ UNCHANGED <<prob, sol, out_sol>>
    /\ UNCHANGED genVars

\* do_solve: build the Problem, solve it (the solver answers with the
\* optimal assignment a), extract the Solution
do_solve(a) ==
    /\ pc = "loaded"
    /\ LET p == BuildProblem(inst, k)
       IN  /\ a \in Optimal(p)
           /\ prob' = p
           /\ sol' = [variables |-> a, objective |-> Objective(p, a)]
           /\ out_sol' = [objective |-> Objective(p, a),
                          sol |-> SolSets(p.set_vars, a)]
    /\ pc' = "solved"
    /\ UNCHANGED <<inst, k>>
    /\ UNCHANGED genVars

\* ---------------------------------------------------------------- Next
OptSizes == {None} \cup {Some(m) : m \in 0 .. MaxMaxSize}
LoadedElems == 0 .. (MaxLoadedElem - 1)
RECURSIVE SeqsUpTo(_, _)
SeqsUpTo(S, n) ==
    IF n = 0 THEN {<<>>}
    ELSE LET shorter == SeqsUpTo(S, n - 1)
         IN  shorter \cup {Append(q, x) : q \in {r \in shorter : Len(r) = n - 1}, x \in S}
LoadedSets == SeqsUpTo(SUBSET LoadedElems, MaxLoadedSets)

NextGen ==
    \/ /\ pc = "main"
       /\ \E n \in 0 .. MaxElements, ns \in 0 .. MaxNumSets, ms \in OptSizes :
             do_generate_enter(n, ns, ms)
    \/ /\ pc = "loop"
       /\ \E sz \in RangeValues(range) : \E s \in Sample(ground, sz) :
             do_generate_attempt(sz, s)
    \/ do_generate_return

NextSolve ==
    \/ /\ pc = "main"
       /\ \E g \in SUBSET LoadedElems, ss \in LoadedSets, kk \in 0 .. MaxK :
             main_solve(g, ss, kk)
    \/ /\ pc = "loaded"
       /\ \E a \in Optimal(BuildProblem(inst, k)) : do_solve(a)

Next == NextGen \/ NextSolve

Spec == Init /\ [][Next]_vars

\* the inner loop draws at random: a (size, set) pair that can be drawn is
\* not passed over for ever (a pair is drawable in every state of the loop,
\* so weak fairness on each pair makes each recur); the return statement is
\* reached once the for loop is over
MaxDraw == IF MaxMaxSize - 1 > MaxElements THEN MaxMaxSize - 1 ELSE MaxElements
FairDraws ==
    /\ \A sz \in 1 .. MaxDraw : \A s \in SUBSET (0 .. (MaxElements - 1)) :
          WF_vars(do_generate_attempt(sz, s))
    /\ WF_vars(do_generate_return)

FairGenSpec == Init /\ [][NextGen]_vars /\ FairDraws

\* ================================================================ claims
InGenerate == pc \in {"loop", "return", "generated"}
NumElements == Cardinality(ground)
\* the largest size the specification lets an attempt draw
ClaimedMaxSize == unwrap_or(max_size, NumElements)
Distinct(q) == \A i, j \in DOMAIN q : i # j => q[i] # q[j]

\* C1: the returned Instance holds exactly num_sets pairwise distinct
\* subsets, and after `iter` completed iterations of the for loop the
\* accumulator holds exactly `iter` distinct subsets.
C1_Uniqueness ==
    /\ pc \in {"loop", "return"} => Cardinality(sets) = iter /\ iter <= num_sets
    /\ pc = "return" => iter = num_sets
    /\ pc = "generated" => Len(inst.sets) = num_sets /\ Distinct(inst.sets)

C1_Witness ==
    /\ pc = "generated"
    /\ num_sets = 3
    /\ Len(inst.sets) = 3
    /\ set \in {inst.sets[j] : j \in DOMAIN inst.sets}

\* C2: every subset of a returned Instance is non-empty, lies within ground
\* and has its size in [1, max_size] (in [1, num_elements] without max_size).
C2_Bounds ==
    pc = "generated" =>
        \A j \in DOMAIN inst.sets :
            /\ inst.sets[j] # {}
            /\ inst.sets[j] \subseteq inst.ground
            /\ Cardinality(inst.sets[j]) \in 1 .. ClaimedMaxSize

\* C8: the sizes an attempt can draw are exactly 1..max_size when max_size
\* is given (max_size included) and exactly 1..num_elements otherwise.
C8_SizeRange ==
    pc = "loop" => RangeValues(range) = 1 .. ClaimedMaxSize

\* C10: every request do_generate makes to the sampler asks for a size
\* between 1 and |ground| (size = 0 only before the first attempt).
C10_SamplerPrecondition ==
    (InGenerate /\ size # 0) => (1 <= size /\ size <= Cardinality(ground))

\* C7: with fair draws do_generate eventually returns whenever ground has at
\* least num_sets distinct subsets of a size in the configured range.
EnoughSubsets ==
    Cardinality({S \in SUBSET ground : Cardinality(S) \in 1 .. ClaimedMaxSize})
        >= num_sets
C7_Termination == (pc = "loop" /\ EnoughSubsets) ~> (pc = "generated")

\* what the loop does guarantee under the same fairness: it returns when
\* ground has num_sets subsets of the sizes the code can produce
ProducedSizes == {Min2(sz, NumElements) : sz \in RangeValues(range)}
EnoughProduced ==
    Cardinality({S \in SUBSET ground : Cardinality(S) \in ProducedSizes}) >= num_sets
TerminationAsCoded == (pc = "loop" /\ EnoughProduced) ~> (pc = "generated")

\* ---- the solve path
\* an Instance that breaks the Instance invariants
Malformed(in) ==
    \/ ~Distinct(in.sets)
    \/ \E j \in DOMAIN in.sets : ~(in.sets[j] \subseteq in.ground)
    \/ \E j \in DOMAIN in.sets : in.sets[j] = {}

GroundSeq == SortedElems(inst.ground)
SetIndices == 0 .. (Len(inst.sets) - 1)
\* the set indices an assignment selects, the elements it marks covered
Selected(a) == {i \in SetIndices : a[prob.set_vars[i + 1]] = 1}
Marked(a) == {GroundSeq[j] : j \in {j2 \in DOMAIN GroundSeq : a[prob.element_vars[j2]] = 1}}
UnionOf(I) == UNION {inst.sets[i + 1] : i \in I}
\* brute-force reference: the best coverage of at most k subsets
MaxCoverage ==
    LET sizes == {Cardinality(UnionOf(I)) :
                    I \in {J \in SUBSET SetIndices : Cardinality(J) <= k}}
    IN  CHOOSE m \in sizes : \A n \in sizes : n <= m
ElementsInGround == \A j \in DOMAIN inst.sets : inst.sets[j] \subseteq inst.ground

\* C3: for an Instance whose subsets lie in ground, the optimum of the built
\* model is the maximum coverage of at most k subsets; at every optimal
\* assignment x_e = 1 exactly when a selected subset holds e; k = 0 gives
\* objective 0 and no selected subset.
C3_OptimumIsMaxCoverage ==
    (pc = "solved" /\ ElementsInGround) =>
        /\ out_sol.objective = MaxCoverage
        /\ \A a \in Optimal(prob) : Marked(a) = UnionOf(Selected(a))
        /\ k = 0 => (out_sol.objective = 0 /\ \A a \in Optimal(prob) : Selected(a) = {})

C3_Witness ==
    /\ pc = "solved"
    /\ ~Malformed(inst)
    /\ Len(inst.sets) = 2
    /\ k = 1
    /\ Cardinality(inst.sets[1]) < Cardinality(inst.sets[2])
    /\ out_sol.objective = Cardinality(inst.sets[2])

\* C4: Solution.sol is the ascending list of the positions in Instance.sets
\* of the subsets whose selection variable the solver set to true.
C4_SolIsSubsetIndices ==
    pc = "solved" =>
        /\ out_sol.sol = SortedElems(Selected(sol.variables))
        /\ \A j \in DOMAIN out_sol.sol : out_sol.sol[j] \in SetIndices

\* C5: in every feasible assignment the marked elements lie in the union of
\* the selected subsets, the objective is the number of marked elements, and
\* a ground element that is in no subset is not marked; every ground element
\* has its constraint.
C5_CoverageSoundness ==
    pc = "solved" =>
        /\ Len(prob.constraints) = Cardinality(inst.ground) + 1
        /\ \A j \in DOMAIN GroundSeq :
              GroundSeq[j] \notin UnionOf(SetIndices) =>
                  /\ prob.constraints[j].name = <<"cover", GroundSeq[j]>>
                  /\ prob.constraints[j].vars =
                         <<WeightedVariable(prob.element_vars[j], -1)>>
        /\ \A a \in Feasible(prob) :
              /\ Marked(a) \subseteq UnionOf(Selected(a))
              /\ Objective(prob, a) = Cardinality(Marked(a))
              /\ \A e \in inst.ground \ UnionOf(SetIndices) : e \notin Marked(a)

C5_Witness ==
    /\ pc = "solved"
    /\ inst.ground \ UnionOf(SetIndices) # {}
    /\ \E a \in Feasible(prob) : Marked(a) # {} /\ Selected(a) # SetIndices

\* C6: the model has exactly one cardinality constraint, every feasible
\* assignment selects at most k subsets, and so |sol| <= k.
C6_Cardinality ==
    pc = "solved" =>
        /\ Cardinality({j \in DOMAIN prob.constraints :
                          prob.constraints[j].name = <<"cardinality">>}) = 1
        /\ \A a \in Feasible(prob) : Cardinality(Selected(a)) <= k
        /\ Len(out_sol.sol) <= k

C6_Witness ==
    /\ pc = "solved"
    /\ ~Malformed(inst)
    /\ k = 1
    /\ Len(inst.sets) = 2
    /\ UnionOf(SetIndices) = inst.ground
    /\ Len(out_sol.sol) = 1
    /\ out_sol.objective < Cardinality(inst.ground)

\* C9 (as stated): the solve path never builds and solves a model from a
\* malformed Instance.
C9_MalformedRejected == pc = "solved" => ~Malformed(inst)

\* C9 (amended): read accepts a malformed Instance and do_solve builds the
\* model from it and solves it: the model has an optimal assignment, and the
\* Solution reports that optimum; there is no error outcome on this path.
C9_MalformedSolved ==
    /\ (pc = "loaded" /\ Malformed(inst)) => Optimal(BuildProblem(inst, k)) # {}
    /\ (pc = "solved" /\ Malformed(inst)) =>
          /\ prob = BuildProblem(inst, k)
          /\ Len(prob.variables) = Cardinality(inst.ground) + Len(inst.sets)
          /\ sol.variables \in Feasible(prob)
          /\ out_sol.objective = Cardinality(Marked(sol.variables))

C9_Witness ==
    /\ pc = "solved"
    /\ ~Distinct(inst.sets)
    /\ \E j \in DOMAIN inst.sets : ~(inst.sets[j] \subseteq inst.ground)
    /\ out_sol.sol # <<>>
====
